---- MODULE Spec2Model ----
(***************************************************************************)
(* The generation pipeline of src/index.tsx (component App): the session   *)
(* collection, the submission flow handleSendMessage with its three        *)
(* concurrent generateArtifact tasks, the mutation flow                    *)
(* handleGenerateVariations, applyVariation, and the view state the        *)
(* handlers read (current session, focused artifact, drawer, isLoading).   *)
(* The code export view (handleShowCode, CodeExportView), the placeholder  *)
(* rotation and the text entry are presentation and are left out; the      *)
(* prompt a submit reads is an input of the submit.                        *)
(*                                                                         *)
(* Spec is App as a whole; in it a mutation flow receives the objects of   *)
(* its stream one by one.  ExtractorSpec follows one mutation stream       *)
(* through parseJsonStream character by character.  FairSpec is Spec with  *)
(* the progress the event loop gives.                                      *)
(*                                                                         *)
(* Text is a sequence of tokens, each a tuple.  The tokens Fence (three    *)
(* backquotes), Html (the letters html) and Space are the ones the fence   *)
(* strip and trim of generateArtifact look at; every other token is        *)
(* opaque.  Indices are 0-based as in the source; a sequence s holds the   *)
(* element of index k at s[k + 1].                                         *)
(***************************************************************************)
EXTENDS Integers, Sequences, FiniteSets, TLC

VARIABLES
    sessions,              \* useState<Session[]>([])
    currentSessionIndex,   \* useState<number>(-1)
    focusedArtifactIndex,  \* useState<number | null>(null), null is NoFocus
    isLoading,             \* useState<boolean>(false)
    drawerState,           \* useState({ isOpen, mode, title, data }); title and
                           \* data are read by the render alone and left out
    componentVariations,   \* useState<ComponentVariation[]>([])
    apiKey,                \* process.env.API_KEY is set
    flows,                 \* the handleSendMessage calls, one per session created
    mutFlows,              \* the handleGenerateVariations calls in flight
    mutateCount,           \* the number of handleGenerateVariations calls so far
    extractor              \* the parseJsonStream generator of a mutation flow,
                           \* followed step by step in ExtractorSpec alone

vars == <<sessions, currentSessionIndex, focusedArtifactIndex, isLoading,
          drawerState, componentVariations, apiKey, flows, mutFlows,
          mutateCount, extractor>>

(***************************************************************************)
(* Bounds of the model.                                                    *)
(***************************************************************************)
\* sessions created, stream increments delivered, objects yielded to one
\* mutation flow, remote calls that fail although the credential is set,
\* mutation flows started
MaxSessions == 2
MaxChunks == 2
MaxYields == 1
MaxFailures == 1
MaxMutations == 1
\* pieces of text in one mutation stream
MaxPieces == 3
\* sessions created in the runs checked for progress
MaxLiveSessions == 1

(***************************************************************************)
(* Program constants.                                                      *)
(***************************************************************************)
NumArtifacts == 3
NoSession == -1
NoFocus == -1

ArtifactIndexes == 0 .. (NumArtifacts - 1)

PlaceholderStyleName == "Accessing Archives..."

FallbackStyles == <<"Holographic Overlay", "Neural Matrix", "Crystal Logic">>

\* generatedStyles[i] of an index the parsed array does not have
Undefined == "undefined"

(***************************************************************************)
(* Text helpers.                                                           *)
(***************************************************************************)
Space == <<" ">>
Html == <<"html">>

IsSpace(tok) == tok = Space

\* String.prototype.trim: drops the white space at both ends
RECURSIVE TrimStart(_)
TrimStart(t) ==
    IF t = <<>> THEN <<>>
    ELSE IF IsSpace(Head(t)) THEN TrimStart(Tail(t))
    ELSE t

RECURSIVE TrimEnd(_)
TrimEnd(t) ==
    IF t = <<>> THEN <<>>
    ELSE IF IsSpace(t[Len(t)]) THEN TrimEnd(SubSeq(t, 1, Len(t) - 1))
    ELSE t

Trim(t) == TrimEnd(TrimStart(t))

\* the token of three backquotes
Fence == <<"fence">>

\* acc.replace(/<fence>html|<fence>/g, ""): one left-to-right pass, the
\* longer alternative first
RECURSIVE RemoveFences(_)
RemoveFences(t) ==
    IF t = <<>> THEN <<>>
    ELSE IF Head(t) = Fence
         THEN IF Len(t) >= 2 /\ t[2] = Html
              THEN RemoveFences(SubSeq(t, 3, Len(t)))
              ELSE RemoveFences(Tail(t))
         ELSE <<Head(t)>> \o RemoveFences(Tail(t))

\* let final = acc.replace(/<fence>html|<fence>/g, "").trim()
FinalContent(acc) == Trim(RemoveFences(acc))

(***************************************************************************)
(* Inputs: what the user types and what the remote model returns.          *)
(***************************************************************************)
\* manualPrompt || inputValue at the time of a submit
Prompts == { <<Space>>, <<Space, <<"q">>, Space>> }

\* a token only the n-th increment of the stream for artifact i of session
\* sid holds
OwnToken(sid, i, n) == <<"t", sid, i, n>>

\* the texts the n-th increment (chunk.text) of that stream can be: a fenced
\* fragment of markup
ChunkTexts(sid, i, n) ==
    { <<Fence, Html, Space, OwnToken(sid, i, n), Space, Fence>> }

\* styleResponse.text: whether /\[.*\]/ matches it, whether JSON.parse
\* accepts the match, and the array it then yields (the model is asked for
\* 3 entries and may return fewer)
StyleResponses ==
    { [match |-> FALSE, valid |-> FALSE, styles |-> <<>>],
      [match |-> TRUE, valid |-> FALSE, styles |-> <<>>],
      [match |-> TRUE, valid |-> TRUE,
       styles |-> <<"Crystalline", "Holographic", "Neural">>],
      [match |-> TRUE, valid |-> TRUE, styles |-> <<"Crystalline">>] }

\* the objects parseJsonStream yields to the loop of handleGenerateVariations;
\* an absent field reads as falsy, like the empty string
VariationObjects ==
    { [name |-> "Orbital Command", html |-> << <<"v1">> >>],
      [name |-> "Quantum Relay", html |-> <<>>],
      [name |-> "", html |-> << <<"v2">> >>] }

(***************************************************************************)
(* Construction of a session.                                              *)
(***************************************************************************)
\* generateId(): an identifier no earlier session has
generateId == Len(sessions) + 101

\* id: sessionId, "_", i
ArtifactId(sessionId, i) == ToString(sessionId) \o "_" \o ToString(i)

\* placeholders created as already complete
placeholderArtifactsComplete(sessionId) ==
    [i \in ArtifactIndexes |->
        [id |-> ArtifactId(sessionId, i),
         styleName |-> PlaceholderStyleName,
         html |-> <<>>,
         status |-> "complete"]]

placeholderArtifacts(sessionId) ==
    [i \in ArtifactIndexes |->
        [id |-> ArtifactId(sessionId, i),
         styleName |-> PlaceholderStyleName,
         html |-> <<>>,
         status |-> "streaming"]]

\* Date.now() read by a submit: a clock that has advanced since the sessions
\* before it were created
DateNow == 1000 + Len(sessions)

newSession(sessionId, trimmedInput) ==
    [id |-> sessionId,
     prompt |-> trimmedInput,
     timestamp |-> DateNow,
     artifacts |-> placeholderArtifacts(sessionId)]

\* a start that calls generateArtifact for the three placeholders before the
\* style request
newFlowLaunched(sessionId) ==
    [sessionId |-> sessionId,
     pc |-> "labels",
     generatedStyles |-> FallbackStyles,
     tasks |-> [i \in ArtifactIndexes |->
                  [pc |-> "streaming", acc |-> <<>>, sent |-> <<>>]]]

\* the state of one handleSendMessage call after its synchronous start:
\* awaiting the style response, with no generateArtifact call made yet
newFlow(sessionId) ==
    [sessionId |-> sessionId,
     pc |-> "labels",
     generatedStyles |-> FallbackStyles,
     tasks |-> [i \in ArtifactIndexes |->
                  [pc |-> "pending", acc |-> <<>>, sent |-> <<>>]]]

(***************************************************************************)
(* The functional updates handed to setSessions.                           *)
(***************************************************************************)
\* artifacts.map((art, i) => ({ ...art, styleName: generatedStyles[i] }))
StyleAt(generatedStyles, i) ==
    IF i + 1 <= Len(generatedStyles) THEN generatedStyles[i + 1] ELSE Undefined

\* a label update that writes the artifacts back in reverse order
SetStylesReversed(prev, sessionId, generatedStyles) ==
    [k \in DOMAIN prev |->
        IF prev[k].id = sessionId
        THEN [prev[k] EXCEPT !.artifacts =
                 [i \in DOMAIN prev[k].artifacts |->
                     [prev[k].artifacts[NumArtifacts - 1 - i] EXCEPT
                         !.styleName = StyleAt(generatedStyles, i)]]]
        ELSE prev[k]]

\* prev.map(s => s.id === sessionId ? { ...s, artifacts: s.artifacts.map(
\*   (art, i) => ({ ...art, styleName: generatedStyles[i] })) } : s)
SetStyles(prev, sessionId, generatedStyles) ==
    [k \in DOMAIN prev |->
        IF prev[k].id = sessionId
        THEN [prev[k] EXCEPT !.artifacts =
                 [i \in DOMAIN prev[k].artifacts |->
                     [prev[k].artifacts[i] EXCEPT
                         !.styleName = StyleAt(generatedStyles, i)]]]
        ELSE prev[k]]

\* a write of an increment that also resets the status
SetHtmlStreaming(prev, sessionId, artifactId, acc) ==
    [k \in DOMAIN prev |->
        IF prev[k].id = sessionId
        THEN [prev[k] EXCEPT !.artifacts =
                 [j \in DOMAIN prev[k].artifacts |->
                     IF prev[k].artifacts[j].id = artifactId
                     THEN [prev[k].artifacts[j] EXCEPT
                              !.html = acc, !.status = "streaming"]
                     ELSE prev[k].artifacts[j]]]
        ELSE prev[k]]

\* prev.map(sess => sess.id === sessionId ? { ...sess, artifacts:
\*   sess.artifacts.map(art => art.id === artifact.id
\*     ? { ...art, html: acc } : art) } : sess)
SetHtml(prev, sessionId, artifactId, acc) ==
    [k \in DOMAIN prev |->
        IF prev[k].id = sessionId
        THEN [prev[k] EXCEPT !.artifacts =
                 [j \in DOMAIN prev[k].artifacts |->
                     IF prev[k].artifacts[j].id = artifactId
                     THEN [prev[k].artifacts[j] EXCEPT !.html = acc]
                     ELSE prev[k].artifacts[j]]]
        ELSE prev[k]]

\* a finalize that leaves out the test of the artifact id
SetFinalEveryArtifact(prev, sessionId, artifactId, final) ==
    [k \in DOMAIN prev |->
        IF prev[k].id = sessionId
        THEN [prev[k] EXCEPT !.artifacts =
                 [j \in DOMAIN prev[k].artifacts |->
                     [prev[k].artifacts[j] EXCEPT
                         !.html = final, !.status = "complete"]]]
        ELSE prev[k]]

\* prev.map(sess => sess.id === sessionId ? { ...sess, artifacts:
\*   sess.artifacts.map(art => art.id === artifact.id
\*     ? { ...art, html: final, status: 'complete' } : art) } : sess)
SetFinal(prev, sessionId, artifactId, final) ==
    [k \in DOMAIN prev |->
        IF prev[k].id = sessionId
        THEN [prev[k] EXCEPT !.artifacts =
                 [j \in DOMAIN prev[k].artifacts |->
                     IF prev[k].artifacts[j].id = artifactId
                     THEN [prev[k].artifacts[j] EXCEPT
                              !.html = final, !.status = "complete"]
                     ELSE prev[k].artifacts[j]]]
        ELSE prev[k]]

\* a replacement that forgets the test of the artifact index
ReplaceAtWholeSession(prev, sessionIndex, artifactIndex, html) ==
    [k \in DOMAIN prev |->
        IF k - 1 = sessionIndex
        THEN [prev[k] EXCEPT !.artifacts =
                 [j \in DOMAIN prev[k].artifacts |->
                     [prev[k].artifacts[j] EXCEPT
                         !.html = html, !.status = "complete"]]]
        ELSE prev[k]]

\* prev.map((sess, i) => i === currentSessionIndex ? {...sess, artifacts:
\*   sess.artifacts.map((art, j) => j === focusedArtifactIndex
\*     ? { ...art, html, status: 'complete' } : art)} : sess)
ReplaceAt(prev, sessionIndex, artifactIndex, html) ==
    [k \in DOMAIN prev |->
        IF k - 1 = sessionIndex
        THEN [prev[k] EXCEPT !.artifacts =
                 [j \in DOMAIN prev[k].artifacts |->
                     IF j = artifactIndex
                     THEN [prev[k].artifacts[j] EXCEPT
                              !.html = html, !.status = "complete"]
                     ELSE prev[k].artifacts[j]]]
        ELSE prev[k]]

\* the number of increments all the streams have delivered
RECURSIVE SentCount(_)
SentCount(fs) ==
    IF fs = <<>> THEN 0
    ELSE Len(Head(fs).tasks[0].sent) + Len(Head(fs).tasks[1].sent)
         + Len(Head(fs).tasks[2].sent) + SentCount(Tail(fs))

\* the number of remote calls that have failed
RECURSIVE FailureCount(_)
FailureCount(fs) ==
    IF fs = <<>> THEN 0
    ELSE (IF Head(fs).pc = "aborted" THEN 1 ELSE 0)
         + Cardinality({i \in ArtifactIndexes : Head(fs).tasks[i].pc = "failed"})
         + FailureCount(Tail(fs))

\* a remote call can fail: always without the credential, else within the bound
MayFail == ~apiKey \/ FailureCount(flows) < MaxFailures

(***************************************************************************)
(* parseJsonStream: the text of the mutation stream and its scan.          *)
(*                                                                         *)
(* The stream's text is a sequence of characters.  The braces are the      *)
(* characters the scan counts.  "n" and "m" each stand for a whole name    *)
(* member of an object (with the value Orbital Command, Quantum Relay),    *)
(* "h" for a whole html member, "e" for an html member whose value is the  *)
(* empty string, "k" for a key whose value is the object that follows it,  *)
(* and "x" for any text that is not JSON.  Separators between members are  *)
(* not modelled.                                                           *)
(***************************************************************************)
\* String.prototype.indexOf and the scan's "no closing brace" both use -1
NotFound == -1

\* what the remote model writes: objects with both fields, objects lacking
\* one, an object with an empty html, an object holding a nested object,
\* noise, a brace without its match
StreamPieces ==
    { <<"{", "n", "h", "}">>,
      <<"{", "m", "h", "}">>,
      <<"{", "n", "}">>,
      <<"{", "h", "}">>,
      <<"{", "n", "e", "}">>,
      <<"{", "m", "k", "{", "n", "}", "h", "}">>,
      <<"x">>,
      <<"{">>,
      <<"}">> }

\* buffer.indexOf(ch, from), positions counted from 0
IndexOf(buffer, ch, from) ==
    LET hits == {j \in DOMAIN buffer : j - 1 >= from /\ buffer[j] = ch}
    IN  IF hits = {} THEN NotFound
        ELSE (CHOOSE j \in hits : \A h \in hits : j <= h) - 1

\* for (let i = start; i < buffer.length; i++) { count the braces;
\*   if (braceCount === 0 && i > start) { end = i; break } }
RECURSIVE ScanBraces(_, _, _, _)
ScanBraces(buffer, start, i, braceCount) ==
    IF i >= Len(buffer) THEN NotFound
    ELSE LET c == buffer[i + 1]
             count == IF c = "{" THEN braceCount + 1
                      ELSE IF c = "}" THEN braceCount - 1
                      ELSE braceCount
         IN  IF count = 0 /\ i > start THEN i
             ELSE ScanBraces(buffer, start, i + 1, count)

\* a scan that closes the candidate at the first closing brace
FindEndFirstBrace(buffer, start) == IndexOf(buffer, "}", start + 1)

\* end: the index where the brace count is back to 0, or -1
FindEnd(buffer, start) == ScanBraces(buffer, start, start, 0)

\* whether JSON.parse accepts the text as an object
RECURSIVE IsJsonObject(_)
RECURSIVE IsJsonMembers(_)
IsJsonObject(t) ==
    /\ Len(t) >= 2
    /\ t[1] = "{"
    /\ t[Len(t)] = "}"
    /\ IsJsonMembers(SubSeq(t, 2, Len(t) - 1))

IsJsonMembers(t) ==
    IF t = <<>> THEN TRUE
    ELSE IF Head(t) \in {"n", "m", "h", "e"} THEN IsJsonMembers(Tail(t))
    ELSE IF Head(t) = "k"
         THEN \E j \in 2 .. Len(t) :
                  /\ IsJsonObject(SubSeq(t, 2, j))
                  /\ IsJsonMembers(SubSeq(t, j + 1, Len(t)))
    ELSE FALSE

\* an object with neither field: keys are the fields it has, and a field it
\* lacks reads as falsy, like the empty string
EmptyObject == [name |-> "", html |-> <<>>, keys |-> {}]

\* the fields handleGenerateVariations reads of the parsed object: the
\* members of the outer object, a later one replacing an earlier one
RECURSIVE ReadMembers(_, _, _)
ReadMembers(t, depth, value) ==
    IF t = <<>> THEN value
    ELSE IF Head(t) = "{" THEN ReadMembers(Tail(t), depth + 1, value)
    ELSE IF Head(t) = "}" THEN ReadMembers(Tail(t), depth - 1, value)
    ELSE IF depth > 0 THEN ReadMembers(Tail(t), depth, value)
    ELSE IF Head(t) = "n"
         THEN ReadMembers(Tail(t), depth,
                          [value EXCEPT !.name = "Orbital Command",
                                        !.keys = @ \cup {"name"}])
    ELSE IF Head(t) = "m"
         THEN ReadMembers(Tail(t), depth,
                          [value EXCEPT !.name = "Quantum Relay",
                                        !.keys = @ \cup {"name"}])
    ELSE IF Head(t) = "h"
         THEN ReadMembers(Tail(t), depth,
                          [value EXCEPT !.html = << <<"v1">> >>,
                                        !.keys = @ \cup {"html"}])
    ELSE IF Head(t) = "e"
         THEN ReadMembers(Tail(t), depth,
                          [value EXCEPT !.html = <<>>,
                                        !.keys = @ \cup {"html"}])
    ELSE ReadMembers(Tail(t), depth, value)

\* JSON.parse(jsonString): ok is FALSE where it throws
JsonParse(jsonString) ==
    IF IsJsonObject(jsonString)
    THEN [ok |-> TRUE,
          value |-> ReadMembers(SubSeq(jsonString, 2, Len(jsonString) - 1),
                                0, EmptyObject)]
    ELSE [ok |-> FALSE, value |-> EmptyObject]

\* no parseJsonStream generator is followed
ExtractorIdle ==
    [pc |-> "idle", pieces |-> <<>>, rest |-> <<>>, fed |-> <<>>,
     buffer |-> <<>>, start |-> NotFound, yielded |-> <<>>, feeds |-> 0]

(***************************************************************************)
(* Initial state: App as mounted.                                          *)
(***************************************************************************)
Init ==
    /\ sessions = <<>>
    /\ currentSessionIndex = NoSession
    /\ focusedArtifactIndex = NoFocus
    /\ isLoading = FALSE
    /\ drawerState = [isOpen |-> FALSE, mode |-> "null"]
    /\ componentVariations = <<>>
    /\ apiKey \in BOOLEAN
    /\ flows = <<>>
    /\ mutFlows = <<>>
    /\ mutateCount = 0
    /\ extractor = ExtractorIdle

(***************************************************************************)
(* What the render of App offers the user.                                 *)
(***************************************************************************)
\* const hasStarted = sessions.length > 0 || isLoading
hasStarted == Len(sessions) > 0 \/ isLoading

\* {hasStarted && focusedArtifactIndex !== null && (<div className="action-bar ...
ActionBarVisible == hasStarted /\ focusedArtifactIndex # NoFocus

\* a Mutate button that is never disabled
MutateAlwaysEnabled == ActionBarVisible

\* <button onClick={handleGenerateVariations} disabled={isLoading}>
MutateEnabled == ActionBarVisible /\ ~isLoading

\* the variation cards: children of an open drawer in mode 'variations'
VariationCardsShown == drawerState.isOpen /\ drawerState.mode = "variations"

\* sessions[currentSessionIndex] is defined
HasCurrentSession ==
    currentSessionIndex >= 0 /\ currentSessionIndex < Len(sessions)

(***************************************************************************)
(* handleSendMessage: the submission flow.                                 *)
(***************************************************************************)
\* a guard that forgets isLoading
SendRejectedEmptyOnly(trimmedInput) == trimmedInput = <<>>

\* if (!trimmedInput || isLoading) return
SendRejected(trimmedInput) == trimmedInput = <<>> \/ isLoading

\* a start that takes the last index of the collection as it was before the
\* append for the index of the new session
handleSendMessageStaleIndex(promptToUse) ==
    LET trimmedInput == Trim(promptToUse)
        sessionId == generateId
    IN  IF SendRejected(trimmedInput)
        THEN UNCHANGED vars
        ELSE /\ Len(sessions) < MaxSessions
             /\ isLoading' = TRUE
             /\ sessions' = Append(sessions, newSession(sessionId, trimmedInput))
             /\ currentSessionIndex' = Len(sessions) - 1
             /\ focusedArtifactIndex' = NoFocus
             /\ flows' = Append(flows, newFlow(sessionId))
             /\ UNCHANGED <<drawerState, componentVariations, apiKey, extractor,
                            mutFlows, mutateCount>>

\* the synchronous start of the handler, up to the await of the style request
handleSendMessage(promptToUse) ==
    LET trimmedInput == Trim(promptToUse)
        sessionId == generateId
    IN  IF SendRejected(trimmedInput)
        THEN UNCHANGED vars
        ELSE /\ Len(sessions) < MaxSessions
             /\ isLoading' = TRUE
             /\ sessions' = Append(sessions, newSession(sessionId, trimmedInput))
             /\ currentSessionIndex' = Len(sessions)
             /\ focusedArtifactIndex' = NoFocus
             /\ flows' = Append(flows, newFlow(sessionId))
             /\ UNCHANGED <<drawerState, componentVariations, apiKey, extractor, mutFlows, mutateCount>>

\* let generatedStyles = [fallback]; try { match; JSON.parse } catch {}
ParseStyles(resp) ==
    IF resp.match /\ resp.valid THEN resp.styles ELSE FallbackStyles

\* the tasks right after Promise.all(placeholderArtifacts.map(generateArtifact)):
\* each call has run up to its await of generateContentStream
launchedTasks ==
    [i \in ArtifactIndexes |-> [pc |-> "streaming", acc |-> <<>>, sent |-> <<>>]]

\* the style request returns: labels written, the three tasks launched
StyleResponse(k, resp) ==
    /\ flows[k].pc = "labels"
    /\ apiKey
    /\ LET generatedStyles == ParseStyles(resp)
       IN  /\ sessions' = SetStyles(sessions, flows[k].sessionId, generatedStyles)
           /\ flows' = [flows EXCEPT ![k].pc = "gen",
                                     ![k].generatedStyles = generatedStyles,
                                     ![k].tasks = launchedTasks]
    /\ UNCHANGED <<currentSessionIndex, focusedArtifactIndex, isLoading,
                   drawerState, componentVariations, apiKey, extractor, mutFlows, mutateCount>>

\* a rejected style request that ends the handler without its finally
StyleFailureKeepsLoading(k) ==
    /\ flows[k].pc = "labels"
    /\ MayFail
    /\ flows' = [flows EXCEPT ![k].pc = "aborted"]
    /\ UNCHANGED <<sessions, currentSessionIndex, focusedArtifactIndex, isLoading,
                   drawerState, componentVariations, apiKey, extractor,
                   mutFlows, mutateCount>>

\* the style request is rejected (no credential, transport error): the await
\* throws to the outer catch, then finally { setIsLoading(false) }
StyleFailure(k) ==
    /\ flows[k].pc = "labels"
    /\ MayFail
    /\ flows' = [flows EXCEPT ![k].pc = "aborted"]
    /\ isLoading' = FALSE
    /\ UNCHANGED <<sessions, currentSessionIndex, focusedArtifactIndex,
                   drawerState, componentVariations, apiKey, extractor, mutFlows, mutateCount>>

\* a loop body that takes each increment for the whole text: acc = chunk.text
StreamChunkSnapshot(k, i, chunk) ==
    /\ flows[k].tasks[i].pc = "streaming"
    /\ SentCount(flows) < MaxChunks
    /\ LET sessionId == flows[k].sessionId
       IN  /\ flows' = [flows EXCEPT ![k].tasks[i].acc = chunk,
                                     ![k].tasks[i].sent = Append(@, chunk)]
           /\ sessions' = SetHtml(sessions, sessionId,
                                  ArtifactId(sessionId, i), chunk)
    /\ UNCHANGED <<currentSessionIndex, focusedArtifactIndex, isLoading,
                   drawerState, componentVariations, apiKey, extractor,
                   mutFlows, mutateCount>>

\* for await (const chunk of responseStream) { acc += chunk.text; setSessions }
StreamChunk(k, i, chunk) ==
    /\ flows[k].tasks[i].pc = "streaming"
    /\ SentCount(flows) < MaxChunks
    /\ LET acc == flows[k].tasks[i].acc \o chunk
           sessionId == flows[k].sessionId
       IN  /\ flows' = [flows EXCEPT ![k].tasks[i].acc = acc,
                                     ![k].tasks[i].sent = Append(@, chunk)]
           /\ sessions' = SetHtml(sessions, sessionId,
                                  ArtifactId(sessionId, i), acc)
    /\ UNCHANGED <<currentSessionIndex, focusedArtifactIndex, isLoading,
                   drawerState, componentVariations, apiKey, extractor, mutFlows, mutateCount>>

\* the stream closes: final = strip(acc); html: final, status: 'complete'
StreamEnd(k, i) ==
    /\ flows[k].tasks[i].pc = "streaming"
    /\ LET sessionId == flows[k].sessionId
       IN  sessions' = SetFinal(sessions, sessionId, ArtifactId(sessionId, i),
                                FinalContent(flows[k].tasks[i].acc))
    /\ flows' = [flows EXCEPT ![k].tasks[i].pc = "done"]
    /\ UNCHANGED <<currentSessionIndex, focusedArtifactIndex, isLoading,
                   drawerState, componentVariations, apiKey, extractor, mutFlows, mutateCount>>

\* a failure handler that commits the partial text as complete
StreamFailureCompletes(k, i) ==
    /\ flows[k].tasks[i].pc = "streaming"
    /\ MayFail
    /\ flows' = [flows EXCEPT ![k].tasks[i].pc = "failed"]
    /\ LET sessionId == flows[k].sessionId
       IN  sessions' = SetFinal(sessions, sessionId, ArtifactId(sessionId, i),
                                flows[k].tasks[i].acc)
    /\ UNCHANGED <<currentSessionIndex, focusedArtifactIndex, isLoading,
                   drawerState, componentVariations, apiKey, extractor, mutFlows,
                   mutateCount>>

\* generateContentStream or the stream throws: catch (e) { console.error(e) }
StreamFailure(k, i) ==
    /\ flows[k].tasks[i].pc = "streaming"
    /\ MayFail
    /\ flows' = [flows EXCEPT ![k].tasks[i].pc = "failed"]
    /\ UNCHANGED <<sessions, currentSessionIndex, focusedArtifactIndex, isLoading,
                   drawerState, componentVariations, apiKey, extractor, mutFlows, mutateCount>>

\* a handler without its finally: isLoading is left as it is
SettleKeepsLoading(k) ==
    /\ flows[k].pc = "gen"
    /\ \A i \in ArtifactIndexes : flows[k].tasks[i].pc \in {"done", "failed"}
    /\ flows' = [flows EXCEPT ![k].pc = "settled"]
    /\ UNCHANGED <<sessions, currentSessionIndex, focusedArtifactIndex, isLoading,
                   drawerState, componentVariations, apiKey, extractor,
                   mutFlows, mutateCount>>

\* Promise.all resolves: finally { setIsLoading(false) }
Settle(k) ==
    /\ flows[k].pc = "gen"
    /\ \A i \in ArtifactIndexes : flows[k].tasks[i].pc \in {"done", "failed"}
    /\ flows' = [flows EXCEPT ![k].pc = "settled"]
    /\ isLoading' = FALSE
    /\ UNCHANGED <<sessions, currentSessionIndex, focusedArtifactIndex,
                   drawerState, componentVariations, apiKey, extractor, mutFlows, mutateCount>>

(***************************************************************************)
(* handleGenerateVariations and applyVariation: the mutation flow.         *)
(***************************************************************************)
\* the click on Mutate: the synchronous start of the handler, which keeps
\* currentArtifact in its closure.  Without a credential the throw is caught
\* at once and finally resets isLoading.
handleGenerateVariations ==
    /\ MutateEnabled
    /\ mutateCount < MaxMutations
    /\ HasCurrentSession /\ focusedArtifactIndex # NoFocus
    /\ drawerState' = [isOpen |-> TRUE, mode |-> "variations"]
    /\ componentVariations' = <<>>
    /\ IF apiKey
       THEN /\ isLoading' = TRUE
            /\ LET currentArtifact ==
                       sessions[currentSessionIndex + 1]
                           .artifacts[focusedArtifactIndex]
               IN  mutFlows' = Append(mutFlows, [target |-> currentArtifact.id,
                                                 yielded |-> 0])
       ELSE /\ isLoading' = FALSE
            /\ mutFlows' = mutFlows
    /\ mutateCount' = mutateCount + 1
    /\ UNCHANGED <<sessions, currentSessionIndex, focusedArtifactIndex,
                   apiKey, extractor, flows>>

\* a test of the name alone
AcceptVariationNameOnly(variation) == variation.name # ""

\* if (variation.name && variation.html) setComponentVariations(prev => [...])
AcceptVariation(variation) == variation.name # "" /\ variation.html # <<>>

\* one object out of parseJsonStream reaches the loop body
VariationYield(m, variation) ==
    /\ mutFlows[m].yielded < MaxYields
    /\ mutFlows' = [mutFlows EXCEPT ![m].yielded = @ + 1]
    /\ componentVariations' =
           IF AcceptVariation(variation)
           THEN Append(componentVariations, variation)
           ELSE componentVariations
    /\ UNCHANGED <<sessions, currentSessionIndex, focusedArtifactIndex, isLoading,
                   drawerState, apiKey, extractor, flows, mutateCount>>

\* an end of the mutation flow without its finally
VariationsEndKeepsLoading(m) ==
    /\ m \in DOMAIN mutFlows
    /\ mutFlows' = SubSeq(mutFlows, 1, m - 1) \o SubSeq(mutFlows, m + 1, Len(mutFlows))
    /\ UNCHANGED <<sessions, currentSessionIndex, focusedArtifactIndex, isLoading,
                   drawerState, componentVariations, apiKey, extractor, flows,
                   mutateCount>>

\* the stream closes or throws: finally { setIsLoading(false) }
VariationsEnd(m) ==
    /\ m \in DOMAIN mutFlows
    /\ mutFlows' = SubSeq(mutFlows, 1, m - 1) \o SubSeq(mutFlows, m + 1, Len(mutFlows))
    /\ isLoading' = FALSE
    /\ UNCHANGED <<sessions, currentSessionIndex, focusedArtifactIndex,
                   drawerState, componentVariations, apiKey, extractor, flows, mutateCount>>

\* the click on a variation card
applyVariation(html) ==
    /\ VariationCardsShown
    /\ IF focusedArtifactIndex = NoFocus
       THEN UNCHANGED <<sessions, drawerState>>
       ELSE /\ sessions' = ReplaceAt(sessions, currentSessionIndex,
                                     focusedArtifactIndex, html)
            /\ drawerState' = [drawerState EXCEPT !.isOpen = FALSE]
    /\ UNCHANGED <<currentSessionIndex, focusedArtifactIndex, isLoading,
                   componentVariations, apiKey, extractor, flows, mutFlows, mutateCount>>

(***************************************************************************)
(* The other view handlers.                                                *)
(***************************************************************************)
\* ArtifactCard onClick={() => setFocusedArtifactIndex(aIndex)}
FocusArtifact(aIndex) ==
    /\ Len(sessions) > 0
    /\ focusedArtifactIndex' = aIndex
    /\ UNCHANGED <<sessions, currentSessionIndex, isLoading, drawerState,
                   componentVariations, apiKey, extractor, flows, mutFlows, mutateCount>>

\* Close Hub: setFocusedArtifactIndex(null)
CloseHub ==
    /\ ActionBarVisible
    /\ focusedArtifactIndex' = NoFocus
    /\ UNCHANGED <<sessions, currentSessionIndex, isLoading, drawerState,
                   componentVariations, apiKey, extractor, flows, mutFlows, mutateCount>>

\* SideDrawer onClose: setDrawerState(s => ({...s, isOpen: false}))
CloseDrawer ==
    /\ drawerState.isOpen
    /\ drawerState' = [drawerState EXCEPT !.isOpen = FALSE]
    /\ UNCHANGED <<sessions, currentSessionIndex, focusedArtifactIndex, isLoading,
                   componentVariations, apiKey, extractor, flows, mutFlows, mutateCount>>

(***************************************************************************)
(* The specification.                                                      *)
(***************************************************************************)
Next ==
    \/ \E promptToUse \in Prompts : handleSendMessage(promptToUse)
    \/ \E k \in DOMAIN flows, resp \in StyleResponses : StyleResponse(k, resp)
    \/ \E k \in DOMAIN flows : StyleFailure(k)
    \/ \E k \in DOMAIN flows, i \in ArtifactIndexes :
          \E chunk \in ChunkTexts(flows[k].sessionId, i,
                                   Len(flows[k].tasks[i].sent)) :
              StreamChunk(k, i, chunk)
    \/ \E k \in DOMAIN flows, i \in ArtifactIndexes : StreamEnd(k, i)
    \/ \E k \in DOMAIN flows, i \in ArtifactIndexes : StreamFailure(k, i)
    \/ \E k \in DOMAIN flows : Settle(k)
    \/ handleGenerateVariations
    \/ \E m \in DOMAIN mutFlows, variation \in VariationObjects :
          VariationYield(m, variation)
    \/ \E m \in DOMAIN mutFlows : VariationsEnd(m)
    \/ \E v \in 1 .. Len(componentVariations) :
          applyVariation(componentVariations[v].html)
    \/ \E aIndex \in ArtifactIndexes : FocusArtifact(aIndex)
    \/ CloseHub
    \/ CloseDrawer

Spec == Init /\ [][Next]_vars

(***************************************************************************)
(* The program with progress: the steps that continue a handler after a    *)
(* remote call has returned, closed or failed are taken once they can be;  *)
(* the user's steps and the arrival of one more increment are not forced.  *)
(* The runs are those that create at most MaxLiveSessions sessions.        *)
(***************************************************************************)
SystemStep ==
    \/ \E k \in DOMAIN flows, resp \in StyleResponses : StyleResponse(k, resp)
    \/ \E k \in DOMAIN flows : StyleFailure(k)
    \/ \E k \in DOMAIN flows, i \in ArtifactIndexes : StreamEnd(k, i)
    \/ \E k \in DOMAIN flows : Settle(k)
    \/ \E m \in DOMAIN mutFlows : VariationsEnd(m)

LiveNext ==
    \/ \E promptToUse \in Prompts :
          /\ handleSendMessage(promptToUse)
          /\ Len(sessions') <= MaxLiveSessions
    \/ \E k \in DOMAIN flows, resp \in StyleResponses : StyleResponse(k, resp)
    \/ \E k \in DOMAIN flows : StyleFailure(k)
    \/ \E k \in DOMAIN flows, i \in ArtifactIndexes :
          \E chunk \in ChunkTexts(flows[k].sessionId, i,
                                   Len(flows[k].tasks[i].sent)) :
              StreamChunk(k, i, chunk)
    \/ \E k \in DOMAIN flows, i \in ArtifactIndexes : StreamEnd(k, i)
    \/ \E k \in DOMAIN flows, i \in ArtifactIndexes : StreamFailure(k, i)
    \/ \E k \in DOMAIN flows : Settle(k)
    \/ handleGenerateVariations
    \/ \E m \in DOMAIN mutFlows, variation \in VariationObjects :
          VariationYield(m, variation)
    \/ \E m \in DOMAIN mutFlows : VariationsEnd(m)
    \/ \E v \in 1 .. Len(componentVariations) :
          applyVariation(componentVariations[v].html)
    \/ \E aIndex \in ArtifactIndexes : FocusArtifact(aIndex)
    \/ CloseHub
    \/ CloseDrawer

FairSpec == Init /\ [][LiveNext]_vars /\ WF_vars(SystemStep)

(***************************************************************************)
(* The mutation stream step by step: parseJsonStream fed by the remote     *)
(* model's chunks, and the loop of handleGenerateVariations that consumes  *)
(* what it yields.  The rest of App stands still: the state is the one     *)
(* right after a click on Mutate with the credential set.                  *)
(***************************************************************************)
\* the texts of a sequence, joined
RECURSIVE Concat(_)
Concat(chunks) ==
    IF chunks = <<>> THEN <<>> ELSE Head(chunks) \o Concat(Tail(chunks))

\* the lists of pieces whose concatenation is the stream's text
PieceLists == UNION { [1 .. n -> StreamPieces] : n \in 1 .. MaxPieces }

\* the state of App besides the generator
appVars == <<sessions, currentSessionIndex, focusedArtifactIndex, isLoading,
             drawerState, componentVariations, apiKey, flows, mutFlows,
             mutateCount>>

\* a first session whose streams all closed, its artifact 0 focused, and
\* handleGenerateVariations run up to its await of generateContentStream
ExtractorInit ==
    /\ sessions =
          << [id |-> 101,
              prompt |-> << <<"q">> >>,
              timestamp |-> 1000,
              artifacts |->
                  [i \in ArtifactIndexes |->
                      [id |-> ArtifactId(101, i),
                       styleName |-> FallbackStyles[i + 1],
                       html |-> <<>>,
                       status |-> "complete"]]] >>
    /\ currentSessionIndex = 0
    /\ focusedArtifactIndex = 0
    /\ isLoading = TRUE
    /\ drawerState = [isOpen |-> TRUE, mode |-> "variations"]
    /\ componentVariations = <<>>
    /\ apiKey = TRUE
    /\ flows =
          << [sessionId |-> 101,
              pc |-> "settled",
              generatedStyles |-> FallbackStyles,
              tasks |-> [i \in ArtifactIndexes |->
                           [pc |-> "done", acc |-> <<>>, sent |-> <<>>]]] >>
    /\ mutFlows = << [target |-> ArtifactId(101, 0), yielded |-> 0] >>
    /\ mutateCount = 1
    /\ \E pieces \in PieceLists :
          extractor = [pc |-> "await", pieces |-> pieces, rest |-> Concat(pieces),
                       fed |-> <<>>, buffer |-> <<>>, start |-> NotFound,
                       yielded |-> <<>>, feeds |-> 0]

\* a chunk handler that keeps the arriving text alone
FeedReplacesBuffer(n) ==
    /\ extractor.pc = "await"
    /\ n <= Len(extractor.rest)
    /\ LET text == SubSeq(extractor.rest, 1, n)
       IN  extractor' = [extractor EXCEPT
                            !.rest = SubSeq(@, n + 1, Len(@)),
                            !.fed = @ \o text,
                            !.feeds = @ + 1,
                            !.buffer = text,
                            !.start = IndexOf(text, "{", 0),
                            !.pc = "scan"]
    /\ UNCHANGED appVars

\* for await (const chunk of responseStream): the next n characters arrive;
\* buffer += text; start = buffer.indexOf('{')
Feed(n) ==
    /\ extractor.pc = "await"
    /\ n <= Len(extractor.rest)
    /\ LET text == SubSeq(extractor.rest, 1, n)
           buffer == extractor.buffer \o text
       IN  extractor' = [extractor EXCEPT
                            !.rest = SubSeq(@, n + 1, Len(@)),
                            !.fed = @ \o text,
                            !.feeds = @ + 1,
                            !.buffer = buffer,
                            !.start = IndexOf(buffer, "{", 0),
                            !.pc = "scan"]
    /\ UNCHANGED appVars

\* one turn of while (start !== -1) that finds a candidate JSON.parse accepts:
\* yield it, cut the buffer behind it, search again from the buffer's start;
\* the loop body of handleGenerateVariations runs on the yielded object.
\* The locals end, variation and buffer are each computed once.
ScanYield ==
    /\ extractor.pc = "scan"
    /\ extractor.start # NotFound
    /\ \E end \in {FindEnd(extractor.buffer, extractor.start)} :
           /\ end # NotFound
           /\ \E variation \in
                     {JsonParse(SubSeq(extractor.buffer, extractor.start + 1,
                                       end + 1))},
                 buffer \in {SubSeq(extractor.buffer, end + 2,
                                    Len(extractor.buffer))} :
                  /\ variation.ok
                  /\ extractor' = [extractor EXCEPT
                                      !.yielded = Append(@, variation.value),
                                      !.buffer = buffer,
                                      !.start = IndexOf(buffer, "{", 0)]
                  /\ componentVariations' =
                         IF AcceptVariation(variation.value)
                         THEN Append(componentVariations, variation.value)
                         ELSE componentVariations
    /\ UNCHANGED <<sessions, currentSessionIndex, focusedArtifactIndex, isLoading,
                   drawerState, apiKey, flows, mutFlows, mutateCount>>

\* a retry that searches from the failed start itself
ScanSkipSameStart ==
    /\ extractor.pc = "scan"
    /\ extractor.start # NotFound
    /\ \E end \in {FindEnd(extractor.buffer, extractor.start)} :
           /\ end # NotFound
           /\ ~JsonParse(SubSeq(extractor.buffer, extractor.start + 1,
                                end + 1)).ok
           /\ extractor' = [extractor EXCEPT
                               !.start = IndexOf(extractor.buffer, "{",
                                                 extractor.start)]
    /\ UNCHANGED appVars

\* one turn that finds a candidate JSON.parse rejects:
\* catch (e) { start = buffer.indexOf('{', start + 1) }
ScanSkip ==
    /\ extractor.pc = "scan"
    /\ extractor.start # NotFound
    /\ \E end \in {FindEnd(extractor.buffer, extractor.start)} :
           /\ end # NotFound
           /\ ~JsonParse(SubSeq(extractor.buffer, extractor.start + 1,
                                end + 1)).ok
           /\ extractor' = [extractor EXCEPT
                               !.start = IndexOf(extractor.buffer, "{",
                                                 extractor.start + 1)]
    /\ UNCHANGED appVars

\* a break that drops the candidate it could not close
ScanStopClearsBuffer ==
    /\ extractor.pc = "scan"
    /\ IF extractor.start = NotFound THEN TRUE
       ELSE FindEnd(extractor.buffer, extractor.start) = NotFound
    /\ extractor' = [extractor EXCEPT
                        !.pc = "await",
                        !.buffer = IF extractor.start = NotFound THEN @
                                   ELSE <<>>]
    /\ UNCHANGED appVars

\* the loop ends (start === -1) or breaks (no closing brace yet): the
\* generator awaits the next chunk
ScanStop ==
    /\ extractor.pc = "scan"
    /\ IF extractor.start = NotFound THEN TRUE
       ELSE FindEnd(extractor.buffer, extractor.start) = NotFound
    /\ extractor' = [extractor EXCEPT !.pc = "await"]
    /\ UNCHANGED appVars

\* the stream closes after its last chunk: both loops end,
\* finally { setIsLoading(false) }
StreamClose ==
    /\ extractor.pc = "await"
    /\ extractor.rest = <<>>
    /\ extractor' = [extractor EXCEPT !.pc = "closed"]
    /\ isLoading' = FALSE
    /\ mutFlows' = <<>>
    /\ UNCHANGED <<sessions, currentSessionIndex, focusedArtifactIndex,
                   drawerState, componentVariations, apiKey, flows, mutateCount>>

\* the stream throws before its last chunk: catch (e), then finally
StreamError ==
    /\ extractor.pc = "await"
    /\ extractor.rest # <<>>
    /\ extractor' = [extractor EXCEPT !.pc = "closed"]
    /\ isLoading' = FALSE
    /\ mutFlows' = <<>>
    /\ UNCHANGED <<sessions, currentSessionIndex, focusedArtifactIndex,
                   drawerState, componentVariations, apiKey, flows, mutateCount>>

ExtractorNext ==
    \/ \E n \in 1 .. Len(extractor.rest) : Feed(n)
    \/ ScanYield
    \/ ScanSkip
    \/ ScanStop
    \/ StreamClose
    \/ StreamError

ExtractorSpec == ExtractorInit /\ [][ExtractorNext]_vars

\* the scan is synchronous code between two awaits of the stream: once a
\* chunk is appended its while loop runs on, turn after turn, until it ends
\* or breaks; the arrival of a chunk and the end of the stream are not forced
ScanTurn == ScanYield \/ ScanSkip \/ ScanStop

ExtractorFairSpec ==
    ExtractorInit /\ [][ExtractorNext]_vars /\ WF_vars(ScanTurn)

(***************************************************************************)
(* Notions the properties are stated with.                                 *)
(***************************************************************************)
\* the artifact of index i of the k-th session and the task streaming into it
Art(k, i) == sessions[k].artifacts[i]
Task(k, i) == flows[k].tasks[i]

\* tok is a token of a stream other than the one of artifact i of session k
IsForeignToken(tok, k, i) ==
    /\ Len(tok) = Len(OwnToken(sessions[k].id, i, 0))
    /\ <<tok[2], tok[3]>> # <<sessions[k].id, i>>

\* this step delivers an increment to, finalizes, fails the task (k, i)
IncrementStep(k, i) == Len(flows'[k].tasks[i].sent) > Len(Task(k, i).sent)
FinalizeStep(k, i) ==
    Task(k, i).pc = "streaming" /\ flows'[k].tasks[i].pc = "done"
FailureStep(k, i) ==
    Task(k, i).pc = "streaming" /\ flows'[k].tasks[i].pc = "failed"

\* this step is applyVariation writing the artifact (k, i)
ApplyStep(k, i) ==
    /\ drawerState.isOpen /\ ~drawerState'.isOpen
    /\ sessions'[k].artifacts[i].status = "complete"
    /\ \E v \in DOMAIN componentVariations :
          sessions'[k].artifacts[i].html = componentVariations[v].html

\* the submission flow k has not reached its finally
InFlight(k) == flows[k].pc \in {"labels", "gen"}

(***************************************************************************)
(* C1: with the tasks of a submission streaming in any interleaving, the   *)
(* content a finalization writes is the fence-stripped, trimmed            *)
(* concatenation, in order, of the increments of that artifact's own       *)
(* stream, and no artifact ever holds a token of another artifact's        *)
(* stream, of its own session or of another one.                           *)
(***************************************************************************)
C1_NoForeignToken ==
    \A k \in DOMAIN sessions, i \in ArtifactIndexes :
        \A n \in DOMAIN Art(k, i).html :
            ~IsForeignToken(Art(k, i).html[n], k, i)

C1_FinalIsOwnConcat ==
    \A k \in DOMAIN flows, i \in ArtifactIndexes :
        FinalizeStep(k, i) =>
            sessions'[k].artifacts[i].html
                = FinalContent(Concat(Task(k, i).sent))

C1_OwnIncrementsOnly == []C1_NoForeignToken /\ [][C1_FinalIsOwnConcat]_vars

\* two tasks of one session have interleaved an increment each and finalized
C1_Witness ==
    \E k \in DOMAIN flows : \E i, j \in ArtifactIndexes :
        /\ i # j
        /\ Task(k, i).pc = "done" /\ Len(Task(k, i).sent) = 1
        /\ Task(k, j).pc = "done" /\ Len(Task(k, j).sent) = 1
        /\ Art(k, i).html = <<OwnToken(sessions[k].id, i, 0)>>
        /\ Art(k, j).html = <<OwnToken(sessions[k].id, j, 0)>>

(***************************************************************************)
(* C2: an artifact's status is streaming or complete, and a complete       *)
(* artifact stays complete in every step.                                  *)
(***************************************************************************)
C2_StatusStep ==
    \A k \in DOMAIN sessions, i \in ArtifactIndexes :
        /\ k \in DOMAIN sessions'
        /\ sessions'[k].artifacts[i].status \in {"streaming", "complete"}
        /\ Art(k, i).status = "complete"
              => sessions'[k].artifacts[i].status = "complete"

C2_StatusMonotone == [][C2_StatusStep]_vars

\* an artifact made complete by a variant while its own stream still runs
C2_Witness ==
    \E k \in DOMAIN flows, i \in ArtifactIndexes :
        Art(k, i).status = "complete" /\ Task(k, i).pc = "streaming"

(***************************************************************************)
(* C3 (as claimed): an increment arriving for an artifact that is already  *)
(* complete leaves its content as it was.                                  *)
(***************************************************************************)
C3_LateIncrementDropped ==
    [][\A k \in DOMAIN flows, i \in ArtifactIndexes :
          (Art(k, i).status = "complete" /\ IncrementStep(k, i))
              => sessions'[k].artifacts[i].html = Art(k, i).html]_vars

(***************************************************************************)
(* C4 (as claimed): finalizing an artifact that is already complete        *)
(* changes neither its content nor its status.                             *)
(***************************************************************************)
C4_FinalizeCompleteNoOp ==
    [][\A k \in DOMAIN flows, i \in ArtifactIndexes :
          (Art(k, i).status = "complete" /\ FinalizeStep(k, i))
              => sessions'[k].artifacts[i] = Art(k, i)]_vars

(***************************************************************************)
(* C5 (as claimed): when the style request of a submission has failed,     *)
(* the three generation tasks have still been launched and the session     *)
(* carries the fallback labels.                                            *)
(***************************************************************************)
C5_LabelFailureStillGenerates ==
    \A k \in DOMAIN flows :
        flows[k].pc = "aborted" =>
            \A i \in ArtifactIndexes :
                /\ Task(k, i).pc # "pending"
                /\ Art(k, i).styleName = FallbackStyles[i + 1]

(***************************************************************************)
(* C6: the step in which a task fails writes no session data and touches   *)
(* no sibling task; a failed task never runs again and its artifact        *)
(* changes only if the user applies a variant to it, so it keeps status    *)
(* streaming and the content committed so far; a sibling of a failed task  *)
(* still commits each increment and finalizes its own artifact.            *)
(***************************************************************************)
C6_FailedKeepsPartial ==
    \A k \in DOMAIN flows, i \in ArtifactIndexes :
        (Task(k, i).pc = "failed" /\ Art(k, i).status = "streaming")
            => Art(k, i).html = Concat(Task(k, i).sent)

C6_FailureStep ==
    \A k \in DOMAIN flows, i \in ArtifactIndexes :
        /\ FailureStep(k, i) =>
              /\ sessions' = sessions
              /\ flows'[k].pc = flows[k].pc
              /\ \A j \in ArtifactIndexes \ {i} : flows'[k].tasks[j] = Task(k, j)
        /\ Task(k, i).pc = "failed" =>
              /\ flows'[k].tasks[i] = Task(k, i)
              /\ sessions'[k].artifacts[i] = Art(k, i) \/ ApplyStep(k, i)
        /\ (\E j \in ArtifactIndexes : Task(k, j).pc = "failed") =>
              /\ IncrementStep(k, i) =>
                    sessions'[k].artifacts[i].html
                        = Concat(flows'[k].tasks[i].sent)
              /\ FinalizeStep(k, i) =>
                    /\ sessions'[k].artifacts[i].status = "complete"
                    /\ sessions'[k].artifacts[i].html
                          = FinalContent(Concat(Task(k, i).sent))

C6_FailureIsLocal == []C6_FailedKeepsPartial /\ [][C6_FailureStep]_vars

\* a task failed mid-stream, its artifact streaming with the partial text,
\* after which a sibling streamed an increment and finalized
C6_Witness ==
    \E k \in DOMAIN flows : \E i, j \in ArtifactIndexes :
        /\ Task(k, i).pc = "failed" /\ Len(Task(k, i).sent) = 1
        /\ Art(k, i).status = "streaming" /\ Art(k, i).html # <<>>
        /\ Task(k, j).pc = "done" /\ Len(Task(k, j).sent) = 1
        /\ Art(k, j).status = "complete" /\ Art(k, j).html # <<>>

(***************************************************************************)
(* C7: isLoading is true as long as a submission has not reached its       *)
(* finally, and a generation task streams only within such a submission.   *)
(***************************************************************************)
C7_LoadingWhileInFlight ==
    \A k \in DOMAIN flows :
        /\ InFlight(k) => isLoading
        /\ \A i \in ArtifactIndexes :
              Task(k, i).pc = "streaming" => flows[k].pc = "gen"

\* one task finalized, a sibling still streaming
C7_Witness ==
    \E k \in DOMAIN flows : \E i, j \in ArtifactIndexes :
        /\ isLoading
        /\ Task(k, i).pc = "done" /\ Task(k, j).pc = "streaming"

(***************************************************************************)
(* C8: at most one flow (submission or mutation) is in flight, and no      *)
(* step taken while isLoading is true creates a session or starts a flow.  *)
(***************************************************************************)
FlowsInFlight ==
    Cardinality({k \in DOMAIN flows : InFlight(k)}) + Len(mutFlows)

C8_NoStartWhileLoading ==
    isLoading =>
        /\ Len(sessions') = Len(sessions)
        /\ Len(flows') = Len(flows)
        /\ Len(mutFlows') <= Len(mutFlows)

C8_OneFlowAtATime == [](FlowsInFlight <= 1) /\ [][C8_NoStartWhileLoading]_vars

\* a submission in flight, a focused artifact and room for another session:
\* both a submit and a click on Mutate can be attempted
C8_Witness ==
    /\ isLoading
    /\ \E k \in DOMAIN flows : flows[k].pc = "gen"
    /\ focusedArtifactIndex # NoFocus
    /\ Len(sessions) < MaxSessions

(***************************************************************************)
(* C9 (as claimed): a step that changes an artifact belongs to the         *)
(* submission of that artifact's session or, while the mutation flow       *)
(* started for a target artifact is in flight, writes that target.         *)
(***************************************************************************)
C9_WritesKeyedByTarget ==
    [][\A k \in DOMAIN sessions, i \in ArtifactIndexes :
          sessions'[k].artifacts[i] # Art(k, i) =>
              \/ flows'[k].pc # flows[k].pc
              \/ flows'[k].tasks[i] # Task(k, i)
              \/ mutFlows = <<>>
              \/ \E m \in DOMAIN mutFlows : mutFlows[m].target = Art(k, i).id]_vars

(***************************************************************************)
(* C10: a step that changes the number of sessions appends one session     *)
(* with exactly 3 artifacts, all streaming, empty and with the             *)
(* placeholder label, and leaves the sessions before it as they were.      *)
(***************************************************************************)
C10_CreateStep ==
    Len(sessions') # Len(sessions) =>
        /\ Len(sessions') = Len(sessions) + 1
        /\ SubSeq(sessions', 1, Len(sessions)) = sessions
        /\ LET created == sessions'[Len(sessions')]
           IN  /\ DOMAIN created.artifacts = ArtifactIndexes
               /\ Cardinality(DOMAIN created.artifacts) = 3
               /\ \A i \in DOMAIN created.artifacts :
                     /\ created.artifacts[i].status = "streaming"
                     /\ created.artifacts[i].html = <<>>
                     /\ created.artifacts[i].styleName = PlaceholderStyleName

C10_CreateAppendsPlaceholders == [][C10_CreateStep]_vars

\* a second session just created behind a first one that holds content
C10_Witness ==
    /\ Len(sessions) = 2
    /\ flows[2].pc = "labels"
    /\ \E i \in ArtifactIndexes :
          Art(1, i).status = "complete" /\ Art(1, i).html # <<>>
    /\ \A i \in ArtifactIndexes :
          Art(2, i).status = "streaming" /\ Art(2, i).html = <<>>

(***************************************************************************)
(* C11: every session has exactly 3 artifacts, at the indices 0, 1, 2; a   *)
(* step never shortens the session collection, and leaves every session    *)
(* at its position with its id, prompt and timestamp, and every artifact   *)
(* at its index with its id; a session that a step appends gets the        *)
(* artifact ids of its creation order.                                     *)
(***************************************************************************)
C11_ThreeArtifacts ==
    \A k \in DOMAIN sessions :
        /\ DOMAIN sessions[k].artifacts = ArtifactIndexes
        /\ Cardinality(DOMAIN sessions[k].artifacts) = 3

C11_Step ==
    /\ Len(sessions') >= Len(sessions)
    /\ \A k \in DOMAIN sessions :
          /\ sessions'[k].id = sessions[k].id
          /\ sessions'[k].prompt = sessions[k].prompt
          /\ sessions'[k].timestamp = sessions[k].timestamp
          /\ \A i \in ArtifactIndexes :
                sessions'[k].artifacts[i].id = Art(k, i).id
    /\ \A k \in DOMAIN sessions' \ DOMAIN sessions :
          \A i \in ArtifactIndexes :
              sessions'[k].artifacts[i].id = ArtifactId(sessions'[k].id, i)

C11_SessionsAppendOnly == []C11_ThreeArtifacts /\ [][C11_Step]_vars

\* two sessions created at different times, the first one labelled and
\* holding an applied variant, the second one holding streamed text
C11_Witness ==
    /\ Len(sessions) = 2
    /\ sessions[1].timestamp # sessions[2].timestamp
    /\ \E i \in ArtifactIndexes :
          /\ Art(1, i).html = << <<"v1">> >>
          /\ Art(1, i).styleName # PlaceholderStyleName
    /\ \E j \in ArtifactIndexes :
          Art(2, j).status = "streaming" /\ Art(2, j).html # <<>>

(***************************************************************************)
(* C12 (as claimed): the step in which the style response arrives sets     *)
(* the label of artifact i to entry i of the returned list where the list  *)
(* has such an entry, and leaves the label of every other artifact as it   *)
(* was.                                                                    *)
(***************************************************************************)
C12_ShortListKeepsLabels ==
    [][\A k \in DOMAIN flows :
          (flows[k].pc = "labels" /\ flows'[k].pc = "gen") =>
              \A i \in ArtifactIndexes :
                  sessions'[k].artifacts[i].styleName =
                      IF i < Len(flows'[k].generatedStyles)
                      THEN flows'[k].generatedStyles[i + 1]
                      ELSE Art(k, i).styleName]_vars

(***************************************************************************)
(* C13: a step that changes the content of an artifact whose status is     *)
(* streaming either extends it (the old content is a prefix of the new     *)
(* one) or sets the status to complete in the same step.                   *)
(***************************************************************************)
IsPrefix(old, new) == Len(old) <= Len(new) /\ SubSeq(new, 1, Len(old)) = old

C13_Step ==
    \A k \in DOMAIN sessions, i \in ArtifactIndexes :
        (/\ Art(k, i).status = "streaming"
         /\ sessions'[k].artifacts[i].html # Art(k, i).html) =>
            \/ sessions'[k].artifacts[i].status = "complete"
            \/ IsPrefix(Art(k, i).html, sessions'[k].artifacts[i].html)

C13_StreamingContentGrows == [][C13_Step]_vars

\* a streaming artifact whose content is two increments long
C13_Witness ==
    \E k \in DOMAIN flows, i \in ArtifactIndexes :
        /\ Art(k, i).status = "streaming"
        /\ Len(Task(k, i).sent) = 2
        /\ Art(k, i).html = Task(k, i).sent[1] \o Task(k, i).sent[2]

(***************************************************************************)
(* Notions for the mutation stream.                                        *)
(***************************************************************************)
\* the text holds nothing but whole objects and noise without braces
WellFormedPieces(pieces) ==
    \A j \in DOMAIN pieces : pieces[j] = <<"x">> \/ IsJsonObject(pieces[j])

\* the objects of a list of pieces, each parsed on its own, in text order
RECURSIVE ParsedObjects(_)
ParsedObjects(pieces) ==
    IF pieces = <<>> THEN <<>>
    ELSE (IF IsJsonObject(Head(pieces))
          THEN <<JsonParse(Head(pieces)).value>>
          ELSE <<>>) \o ParsedObjects(Tail(pieces))

\* the leading pieces that lie wholly within the first n characters
RECURSIVE PiecesWithin(_, _)
PiecesWithin(pieces, n) ==
    IF pieces = <<>> \/ Len(Head(pieces)) > n THEN <<>>
    ELSE <<Head(pieces)>> \o PiecesWithin(Tail(pieces), n - Len(Head(pieces)))

\* the object has a name and an html field
CarriesBothFields(object) == {"name", "html"} \subseteq object.keys

\* the object has a name and an html that are not empty
BothFieldsTruthy(object) == object.name # "" /\ object.html # <<>>

(***************************************************************************)
(* C14: when the text of the stream is made of whole objects and noise     *)
(* without braces, then however it was cut into chunks, once all of it has *)
(* been fed and scanned the generator has yielded exactly its objects, in  *)
(* text order, each the value JSON.parse gives for that object's text.     *)
(***************************************************************************)
C14_ChunkInvariance ==
    (/\ extractor.pc \in {"await", "closed"}
     /\ extractor.rest = <<>>
     /\ WellFormedPieces(extractor.pieces))
        => extractor.yielded = ParsedObjects(extractor.pieces)

\* an object holding a nested object, noise and a second object, fed one
\* character at a time
C14_Witness ==
    /\ extractor.pc = "await"
    /\ extractor.rest = <<>>
    /\ extractor.pieces = << <<"{", "m", "k", "{", "n", "}", "h", "}">>,
                             <<"x">>,
                             <<"{", "n", "h", "}">> >>
    /\ extractor.feeds = Len(extractor.fed)
    /\ extractor.yielded =
          << [name |-> "Quantum Relay", html |-> << <<"v1">> >>,
              keys |-> {"name", "html"}],
             [name |-> "Orbital Command", html |-> << <<"v1">> >>,
              keys |-> {"name", "html"}] >>

(***************************************************************************)
(* C15 (as claimed): when the text holds an opening brace that no closing  *)
(* brace matches, followed later by a whole object, then once all of it    *)
(* has been fed and scanned that object has been yielded.                  *)
(***************************************************************************)
C15_RecoversAfterStrayBrace ==
    \A j, l \in DOMAIN extractor.pieces :
        (/\ extractor.pc = "await"
         /\ extractor.rest = <<>>
         /\ j < l
         /\ extractor.pieces[j] = <<"{">>
         /\ IsJsonObject(extractor.pieces[l])
         /\ \A r \in DOMAIN extractor.pieces : extractor.pieces[r] # <<"}">>)
            => \E y \in DOMAIN extractor.yielded :
                   extractor.yielded[y] = JsonParse(extractor.pieces[l]).value

(***************************************************************************)
(* C16: the generator never yields more objects than closing braces have   *)
(* arrived; for a text of whole objects and noise, what it has yielded is  *)
(* always a leading part of the objects whose closing brace has arrived,   *)
(* and all of them once the scan of the chunk is over: after a chunk that  *)
(* ends inside an object nothing of that object is yielded, and the chunk  *)
(* that closes it yields it once.                                          *)
(***************************************************************************)
C16_NoPartialObject ==
    /\ Len(extractor.yielded)
          <= Cardinality({j \in DOMAIN extractor.fed : extractor.fed[j] = "}"})
    /\ WellFormedPieces(extractor.pieces) =>
          LET closed == ParsedObjects(PiecesWithin(extractor.pieces,
                                                   Len(extractor.fed)))
          IN  /\ IsPrefix(extractor.yielded, closed)
              /\ extractor.pc # "scan" => extractor.yielded = closed

\* one object fed in two chunks and yielded once, after the second
C16_Witness ==
    /\ extractor.pieces = << <<"{", "n", "h", "}">> >>
    /\ extractor.feeds = 2
    /\ extractor.pc = "await"
    /\ extractor.buffer = <<>>
    /\ extractor.yielded = << [name |-> "Orbital Command",
                               html |-> << <<"v1">> >>,
                               keys |-> {"name", "html"}] >>

(***************************************************************************)
(* C17: a submission whose style request is out leads to a state where     *)
(* the style request or one of its streams has failed, or else to a state  *)
(* where the handler has finished: isLoading is false, each of the 3       *)
(* artifacts is complete and sits at its index of creation, and each       *)
(* artifact for which the returned list has an entry carries that entry    *)
(* as its label.                                                           *)
(***************************************************************************)
Failed(k) ==
    \/ flows[k].pc = "aborted"
    \/ \E i \in ArtifactIndexes : Task(k, i).pc = "failed"

Succeeded(k) ==
    /\ flows[k].pc = "settled"
    /\ ~isLoading
    /\ \A i \in ArtifactIndexes :
          /\ Art(k, i).status = "complete"
          /\ Art(k, i).id = ArtifactId(sessions[k].id, i)
          /\ i < Len(flows[k].generatedStyles)
                => Art(k, i).styleName = flows[k].generatedStyles[i + 1]

C17_SubmissionCompletes ==
    \A k \in 1 .. MaxLiveSessions :
        (k \in DOMAIN flows /\ flows[k].pc = "labels")
            ~> (k \in DOMAIN flows /\ (Failed(k) \/ Succeeded(k)))

\* a submission that ended without a failure, with the fetched labels, two
\* of its streams having delivered an increment
C17_Witness ==
    \E k \in DOMAIN flows :
        /\ Succeeded(k)
        /\ ~Failed(k)
        /\ flows[k].generatedStyles = <<"Crystalline", "Holographic", "Neural">>
        /\ Cardinality({i \in ArtifactIndexes : Len(Task(k, i).sent) = 1}) = 2

(***************************************************************************)
(* C18 (as claimed): componentVariations holds, in the order of their      *)
(* yield, exactly the yielded objects that have a name and an html field.  *)
(***************************************************************************)
C18_AppendsIffCarriesBoth ==
    componentVariations = SelectSeq(extractor.yielded, CarriesBothFields)

(***************************************************************************)
(* C18 (amended): the step in which the generator yields an object         *)
(* appends it to componentVariations if its name and its html are both     *)
(* there and not empty, and leaves the list as it was if not; the step     *)
(* does not end the flow (isLoading stays true, the scan goes on); so the  *)
(* list always holds the yielded objects with a non-empty name and html,   *)
(* in the order of their yield.                                            *)
(***************************************************************************)
C18_ListIsTruthyYields ==
    componentVariations = SelectSeq(extractor.yielded, BothFieldsTruthy)

C18_YieldStep ==
    Len(extractor'.yielded) > Len(extractor.yielded) =>
        LET object == extractor'.yielded[Len(extractor'.yielded)]
        IN  /\ Len(extractor'.yielded) = Len(extractor.yielded) + 1
            /\ componentVariations' =
                  IF BothFieldsTruthy(object)
                  THEN Append(componentVariations, object)
                  ELSE componentVariations
            /\ extractor'.pc = "scan"
            /\ isLoading' /\ mutFlows' = mutFlows

C18_AppendsIffBothTruthy == []C18_ListIsTruthyYields /\ [][C18_YieldStep]_vars

\* an object with an empty html skipped, then two objects with both fields
\* appended in the order of their yield
C18_Witness ==
    /\ Len(extractor.yielded) = 3
    /\ extractor.yielded[1] =
          [name |-> "Orbital Command", html |-> <<>>, keys |-> {"name", "html"}]
    /\ componentVariations =
          << [name |-> "Quantum Relay", html |-> << <<"v1">> >>,
              keys |-> {"name", "html"}],
             [name |-> "Orbital Command", html |-> << <<"v1">> >>,
              keys |-> {"name", "html"}] >>

(***************************************************************************)
(* C19: a click on a variation card with an artifact focused closes the    *)
(* drawer and writes one artifact, the one at the focused index of the     *)
(* current session: its content becomes the variant's content and its      *)
(* status complete, whatever they were; every other artifact, every other  *)
(* session and the rest of the state are as before.  With no artifact      *)
(* focused the click changes nothing.                                      *)
(***************************************************************************)
C19_ApplyStep ==
    \A v \in DOMAIN componentVariations :
        applyVariation(componentVariations[v].html) =>
            IF focusedArtifactIndex = NoFocus
            THEN UNCHANGED vars
            ELSE /\ HasCurrentSession
                 /\ ~drawerState'.isOpen
                 /\ drawerState'.mode = drawerState.mode
                 /\ Len(sessions') = Len(sessions)
                 /\ \A k \in DOMAIN sessions, i \in ArtifactIndexes :
                       sessions'[k].artifacts[i] =
                           IF k - 1 = currentSessionIndex
                              /\ i = focusedArtifactIndex
                           THEN [Art(k, i) EXCEPT
                                    !.html = componentVariations[v].html,
                                    !.status = "complete"]
                           ELSE Art(k, i)
                 /\ UNCHANGED <<currentSessionIndex, focusedArtifactIndex,
                                isLoading, componentVariations, flows, mutFlows>>

C19_ApplyWritesFocusedOnly == [][C19_ApplyStep]_vars

\* a variant applied to an artifact of the second session whose stream
\* still runs, beside a sibling that is still streaming
C19_Witness ==
    /\ Len(sessions) = 2
    /\ ~drawerState.isOpen
    /\ drawerState.mode = "variations"
    /\ \E i, j \in ArtifactIndexes :
          /\ i # j
          /\ Art(2, i).status = "complete"
          /\ Art(2, i).html = << <<"v1">> >>
          /\ Task(2, i).pc = "streaming"
          /\ Art(2, j).status = "streaming"

(***************************************************************************)
(* C20: with no credential no artifact is ever complete or holds content,  *)
(* no generation task is launched, no mutation flow stays in flight and    *)
(* no variant is appended; isLoading is true only while a style request    *)
(* is out, and whenever it is true it becomes false again.                 *)
(***************************************************************************)
C20_NothingGenerated ==
    ~apiKey =>
        /\ \A k \in DOMAIN sessions, i \in ArtifactIndexes :
              Art(k, i).status = "streaming" /\ Art(k, i).html = <<>>
        /\ \A k \in DOMAIN flows :
              /\ flows[k].pc \in {"labels", "aborted"}
              /\ \A i \in ArtifactIndexes : Task(k, i).pc = "pending"
        /\ componentVariations = <<>>
        /\ mutFlows = <<>>
        /\ isLoading <=> \E k \in DOMAIN flows : flows[k].pc = "labels"

C20_MissingCredential ==
    []C20_NothingGenerated /\ ((~apiKey /\ isLoading) ~> ~isLoading)

\* without a credential: the submission has failed, isLoading is false
\* again, and a click on Mutate after it was served and left no variant
C20_Witness ==
    /\ ~apiKey
    /\ Len(flows) = 1 /\ flows[1].pc = "aborted"
    /\ ~isLoading
    /\ mutateCount = 1
    /\ drawerState.isOpen /\ drawerState.mode = "variations"
    /\ componentVariations = <<>>
    /\ \A i \in ArtifactIndexes : Art(1, i).status = "streaming"

(***************************************************************************)
(* C21: the step of an accepted submission, the one that appends a         *)
(* session, leaves the current index at the position of the session it     *)
(* appended, which is the last one and has an id no earlier session has,   *)
(* and leaves no artifact focused, whatever was current and focused        *)
(* before.                                                                 *)
(***************************************************************************)
C21_SubmitStep ==
    Len(sessions') > Len(sessions) =>
        /\ currentSessionIndex' = Len(sessions') - 1
        /\ sessions'[currentSessionIndex' + 1] = sessions'[Len(sessions')]
        /\ \A k \in DOMAIN sessions :
              sessions[k].id # sessions'[currentSessionIndex' + 1].id
        /\ flows'[Len(flows')].sessionId
              = sessions'[currentSessionIndex' + 1].id
        /\ focusedArtifactIndex' = NoFocus

C21_NewSessionIsCurrent == [][C21_SubmitStep]_vars

\* a second submission right after its start: the first session holds an
\* applied variant, so one of its artifacts was focused, and the second
\* session is current with nothing focused
C21_Witness ==
    /\ Len(sessions) = 2
    /\ flows[2].pc = "labels"
    /\ currentSessionIndex = 1
    /\ focusedArtifactIndex = NoFocus
    /\ \E i \in ArtifactIndexes : Art(1, i).html = << <<"v1">> >>

(***************************************************************************)
(* C22: the scan that follows the append of a chunk ends.  The search      *)
(* start is -1 or the position of an opening brace of the buffer.  A turn  *)
(* of the loop that yields cuts a prefix of at least two characters off    *)
(* the buffer; a turn after a parse failure leaves the buffer as it is and *)
(* moves the start strictly forward or to -1.  Either way the number of    *)
(* opening braces from the start on, which is at most the buffer's         *)
(* length, goes down, so the turns of one scan are fewer than the buffer   *)
(* is long; and a scan that has begun reaches the await of the next chunk. *)
(***************************************************************************)
\* the opening braces the scan can still start a candidate at
OpenBracesAhead(e) ==
    IF e.start = NotFound THEN 0
    ELSE Cardinality({j \in DOMAIN e.buffer :
                         j - 1 >= e.start /\ e.buffer[j] = "{"})

C22_StartOnBrace ==
    /\ extractor.start # NotFound =>
          /\ extractor.start \in 0 .. (Len(extractor.buffer) - 1)
          /\ extractor.buffer[extractor.start + 1] = "{"
    /\ OpenBracesAhead(extractor) <= Len(extractor.buffer)

C22_TurnStep ==
    (extractor.pc = "scan" /\ extractor'.pc = "scan") =>
        /\ OpenBracesAhead(extractor') < OpenBracesAhead(extractor)
        /\ IF Len(extractor'.yielded) > Len(extractor.yielded)
           THEN \E n \in 2 .. Len(extractor.buffer) :
                    extractor'.buffer
                        = SubSeq(extractor.buffer, n + 1, Len(extractor.buffer))
           ELSE /\ extractor'.buffer = extractor.buffer
                /\ \/ extractor'.start = NotFound
                   \/ extractor'.start > extractor.start

C22_ScanTerminates ==
    /\ []C22_StartOnBrace
    /\ [][C22_TurnStep]_vars
    /\ (extractor.pc = "scan") ~> (extractor.pc = "await")

\* one chunk whose scan took a turn that failed to parse (the candidate
\* from the first brace), a turn that yielded (the object inside it), and
\* then ended on the closing brace left over
C22_Witness ==
    /\ extractor.pieces = << <<"{">>, <<"{", "n", "h", "}">>, <<"}">> >>
    /\ extractor.feeds = 1
    /\ extractor.pc = "await"
    /\ extractor.rest = <<>>
    /\ Len(extractor.yielded) = 1
    /\ extractor.buffer = <<"}">>

(***************************************************************************)
(* C23: the buffer changes in two kinds of step only.  The arrival of a    *)
(* chunk appends the chunk's text to it.  A turn that yields removes the   *)
(* prefix that ends at the closing brace of the candidate JSON.parse       *)
(* accepted, the yielded value being that candidate's.  A turn after a     *)
(* parse failure, the end of the loop on an unclosed candidate, and the    *)
(* end of the stream leave it as it was.  So the buffer is always the      *)
(* text fed so far minus a consumed prefix, which is empty as long as      *)
(* nothing was yielded and ends at a closing brace after that; and when    *)
(* the whole text is made of objects JSON.parse accepts, the buffer is     *)
(* empty once all of it has been fed and scanned.                          *)
(***************************************************************************)
IsSuffix(tail, text) ==
    /\ Len(tail) <= Len(text)
    /\ SubSeq(text, Len(text) - Len(tail) + 1, Len(text)) = tail

OnlyObjects(pieces) == \A j \in DOMAIN pieces : IsJsonObject(pieces[j])

C23_BufferIsUnconsumedTail ==
    /\ IsSuffix(extractor.buffer, extractor.fed)
    /\ LET consumed == Len(extractor.fed) - Len(extractor.buffer)
       IN  /\ consumed = 0 <=> extractor.yielded = <<>>
           /\ consumed > 0 => extractor.fed[consumed] = "}"
    /\ (/\ OnlyObjects(extractor.pieces)
        /\ extractor.rest = <<>>
        /\ extractor.pc # "scan") => extractor.buffer = <<>>

C23_BufferStep ==
    IF extractor'.feeds > extractor.feeds
    THEN \E n \in 1 .. Len(extractor.rest) :
             /\ extractor'.buffer
                   = extractor.buffer \o SubSeq(extractor.rest, 1, n)
             /\ extractor'.fed = extractor.fed \o SubSeq(extractor.rest, 1, n)
    ELSE IF Len(extractor'.yielded) > Len(extractor.yielded)
    THEN \E s, e \in 0 .. (Len(extractor.buffer) - 1) :
             /\ s < e
             /\ extractor.buffer[s + 1] = "{"
             /\ extractor.buffer[e + 1] = "}"
             /\ JsonParse(SubSeq(extractor.buffer, s + 1, e + 1)).ok
             /\ extractor'.yielded[Len(extractor'.yielded)]
                   = JsonParse(SubSeq(extractor.buffer, s + 1, e + 1)).value
             /\ extractor'.buffer
                   = SubSeq(extractor.buffer, e + 2, Len(extractor.buffer))
    ELSE extractor'.buffer = extractor.buffer

C23_BufferChanges == []C23_BufferIsUnconsumedTail /\ [][C23_BufferStep]_vars

\* an object consumed out of the first chunk; the noise and the unclosed
\* brace behind it, which came with the second chunk, are kept after the
\* scan and after the end of the stream
C23_Witness ==
    /\ extractor.pieces = << <<"{", "n", "h", "}">>, <<"x">>, <<"{">> >>
    /\ extractor.feeds = 2
    /\ extractor.pc = "closed"
    /\ Len(extractor.yielded) = 1
    /\ extractor.buffer = <<"x", "{">>

(***************************************************************************)
(* C24: as long as the style request of a submission is out, and after it  *)
(* has failed, none of the submission's tasks is launched and none of its  *)
(* streams has delivered an increment; the step that launches the tasks    *)
(* is the one that writes the labels, and a step that delivers an          *)
(* increment or finalizes finds the labels of the session written.  So no  *)
(* artifact is ever streaming with content under the placeholder label.    *)
(***************************************************************************)
\* the labels of the k-th session are the ones its submission computed
LabelsWritten(ss, k) ==
    \A i \in ArtifactIndexes :
        ss[k].artifacts[i].styleName = StyleAt(flows[k].generatedStyles, i)

C24_NoContentBeforeLabels ==
    /\ \A k \in DOMAIN flows :
          flows[k].pc \in {"labels", "aborted"} =>
              \A i \in ArtifactIndexes :
                  /\ Task(k, i).pc = "pending"
                  /\ Task(k, i).sent = <<>>
                  /\ Art(k, i).styleName = PlaceholderStyleName
                  /\ Art(k, i).status = "streaming" => Art(k, i).html = <<>>
    /\ \A k \in DOMAIN sessions, i \in ArtifactIndexes :
          ~(/\ Art(k, i).styleName = PlaceholderStyleName
            /\ Art(k, i).status = "streaming"
            /\ Art(k, i).html # <<>>)

C24_ContentStep ==
    \A k \in DOMAIN flows, i \in ArtifactIndexes :
        /\ (Task(k, i).pc = "pending" /\ flows'[k].tasks[i].pc # "pending") =>
              /\ flows[k].pc = "labels" /\ flows'[k].pc = "gen"
              /\ \A j \in ArtifactIndexes :
                    sessions'[k].artifacts[j].styleName
                        = StyleAt(flows'[k].generatedStyles, j)
        /\ (IncrementStep(k, i) \/ FinalizeStep(k, i)) =>
              /\ flows[k].pc = "gen"
              /\ LabelsWritten(sessions, k)
              /\ LabelsWritten(sessions', k)

C24_LabelsBeforeContent ==
    []C24_NoContentBeforeLabels /\ [][C24_ContentStep]_vars

\* a second submission whose labels were fetched and written, one of its
\* artifacts holding a first increment under its label and a sibling still
\* empty, beside a first session whose style request had failed
C24_Witness ==
    /\ Len(flows) = 2
    /\ flows[1].pc = "aborted"
    /\ flows[2].pc = "gen"
    /\ \E i, j \in ArtifactIndexes :
          /\ Art(2, i).styleName = "Crystalline"
          /\ Art(2, i).status = "streaming"
          /\ Art(2, i).html # <<>>
          /\ Task(2, j).pc = "streaming"
          /\ Art(2, j).html = <<>>

(***************************************************************************)
(* C25: isLoading is true only while a flow that set it is in flight; a    *)
(* submission in flight leads to that submission being over with           *)
(* isLoading false, whether it settles or its style request fails; a       *)
(* mutation flow in flight leads to no mutation flow being in flight with  *)
(* isLoading false; and whenever isLoading is true it becomes false        *)
(* again, so a submit is not rejected for ever.                            *)
(***************************************************************************)
C25_LoadingHasFlow == isLoading => FlowsInFlight >= 1

C25_LoadingEnds ==
    /\ []C25_LoadingHasFlow
    /\ \A k \in 1 .. MaxLiveSessions :
          (k \in DOMAIN flows /\ InFlight(k))
              ~> (k \in DOMAIN flows /\ ~InFlight(k) /\ ~isLoading)
    /\ (mutFlows # <<>>) ~> (mutFlows = <<>> /\ ~isLoading)
    /\ isLoading ~> ~isLoading

\* with the credential set: a submission that settled although one of its
\* streams failed, then a mutation flow that yielded a variant and ended;
\* isLoading is false again
C25_Witness ==
    /\ apiKey
    /\ ~isLoading
    /\ Len(flows) = 1
    /\ flows[1].pc = "settled"
    /\ \E i \in ArtifactIndexes : Task(1, i).pc = "failed"
    /\ mutateCount = 1
    /\ mutFlows = <<>>
    /\ Len(componentVariations) = 1

====
